---- MODULE Spec2Model ----
(***************************************************************************)
(* Nova plugin orchestration: the PluginManager (records, worker           *)
(* processes, intentional-stop markers, restart and forced-kill timers),   *)
(* the PluginStateManager (in-memory map and state file) and the host      *)
(* side of the IPC bridge, modelled from src/nova/core.                    *)
(*                                                                         *)
(* The host runs one event loop.  Every public operation of the manager    *)
(* and every callback (process finished, timer fired) is one action; the   *)
(* nested waitForFinished() calls of stop_all, delete_plugin and           *)
(* reload_plugin run the finished handler inside the same action, as Qt    *)
(* does.  A worker process exits at the OS level (WorkerExits) before the  *)
(* host handles the exit (ProcessFinished).                                *)
(***************************************************************************)
EXTENDS Integers, Sequences, FiniteSets, TLC

VARIABLES
    records,            \* PluginManager._records: plugin id -> _PluginRecord
    intentional_stops,  \* PluginManager._intentional_stops
    procs,              \* every QProcess created so far, by handle 1..Len(procs)
    states,             \* PluginStateManager._states
    file,               \* contents of nova_state.json
    restartTimers,      \* pending QTimer.singleShot(2000, start) per plugin id
    killTimers,         \* process handles with a pending _safe_kill timer
    nextName,           \* the next fresh channel name (uuid4 is modelled as fresh)
    listening,          \* channel names with a listening MainBridge
    closedBridges,      \* channel names whose MainBridge was closed
    dirs,               \* plugin ids with a plugin directory holding a valid descriptor
    lastOp,             \* history: the last operation, its process and its emissions
    consec,             \* history: crashes of an id since its last explicit start()
    _server,            \* MainBridge._server of one record: "none", "listening", "closed"
    _conn,              \* MainBridge._conn: a worker's connection, or NoConn
    _buf,               \* MainBridge._buf: bytes read and not yet split into lines
    workers,            \* the workers spawned on the record's channel, and their sockets
    data_received,      \* data messages handed to the plugin's on_data, in order
    bactive,            \* the record's active flag, as far as the bridge is concerned
    plugins_dir,        \* the files under PluginManager._plugins_dir: path -> contents
    manifests,          \* what the last discover() returned
    imported,           \* what the last import_plugin() returned
    _states,            \* PluginStateManager._states, every field of PluginState
    _file,              \* the state file at PluginStateManager._file
    now,                \* the clock _NOW() reads, in seconds
    called,             \* history: the last operation of the state store
    written,            \* history: the store has rewritten its file
    worker_host,        \* one worker process: its WorkerBridge, plugin thread and loop
    wlog,               \* history: what the worker process has done
    notified            \* history: lifecycle notifications emitted, per plugin id

mvars == <<records, intentional_stops, procs, states, file, restartTimers,
           killTimers, nextName, listening, closedBridges, dirs, lastOp, consec>>

bvars == <<_server, _conn, _buf, workers, data_received, bactive>>

fvars == <<plugins_dir, manifests, imported>>

svars == <<_states, _file, now, called, written>>

ovars == <<worker_host, wlog, notified>>

vars == <<mvars, bvars, fvars, svars, ovars>>

(***************************************************************************)
(* Bounds of the model.                                                    *)
(***************************************************************************)
MaxProcs == 2      \* worker processes spawned in one run of Spec
MaxLoads == 2      \* records created in one run
MaxLifeProcs == 4  \* worker processes spawned in one run of LifeSpec
MaxWorkers == 2    \* worker processes spawned on one channel in BridgeSpec
MaxEntries == 3    \* entries of one imported archive
MaxClock == 2      \* seconds the clock of the state store runs
MaxCount == 1      \* runs, and crashes, the state store counts
MaxMsgs == 1       \* data messages one worker sends in BridgeSpec

Ids == {"a"}

_MAX_RESTARTS == 3

NoProc == 0

(* What QProcess.finished reports: exit code and exit status.  A process   *)
(* ended by kill() is reported with CrashExit.                             *)
ExitKinds ==
    { [code |-> c, status |-> s] : c \in {0, 1}, s \in {"NormalExit", "CrashExit"} }

KilledExit == [code |-> 1, status |-> "CrashExit"]

ExitsOf(os) == IF os = "killed" THEN {e \in ExitKinds : e.status = "CrashExit"} ELSE ExitKinds

DefaultState ==
    [enabled |-> TRUE, favorite |-> FALSE, run_count |-> 0, crash_count |-> 0]

Restrict(f, S) == [x \in S |-> f[x]]

(***************************************************************************)
(* The manager's state as one value, so that an operation that calls       *)
(* another (delete_plugin calls stop, a wait runs the finished handler)    *)
(* composes the callee's effect.  out collects the signals emitted and     *)
(* the process calls made by the operation under way; ret is its result.   *)
(***************************************************************************)
Cur ==
    [records |-> records, stops |-> intentional_stops, procs |-> procs,
     states |-> states, file |-> file, rtimers |-> restartTimers,
     ktimers |-> killTimers, nextName |-> nextName, listening |-> listening,
     closed |-> closedBridges, dirs |-> dirs, out |-> <<>>, ret |-> "none"]

Emit(M, what, id) == [M EXCEPT !.out = Append(@, <<what, id>>)]

Return(M, v) == [M EXCEPT !.ret = v]

IsLoaded(M, id) == id \in DOMAIN M.records

IsActive(M, id) == id \in DOMAIN M.records /\ M.records[id].active

(***************************************************************************)
(* PluginStateManager                                                      *)
(***************************************************************************)
Save(M) == [M EXCEPT !.file = M.states]

StateGet(M, id) ==
    IF id \notin DOMAIN M.states
        THEN Save([M EXCEPT !.states = (id :> DefaultState) @@ @])
        ELSE M

RecordRun(M, id) ==
    LET M1 == StateGet(M, id)
    IN  Save([M1 EXCEPT !.states[id].run_count = @ + 1])

RecordCrashTwice(M, id) ==
    Save([StateGet(M, id) EXCEPT !.states[id].crash_count = @ + 2])

RecordCrash(M, id) ==
    LET M1 == StateGet(M, id)
    IN  Save([M1 EXCEPT !.states[id].crash_count = @ + 1])

StateRemoveUnsaved(M, id) ==
    [M EXCEPT !.states = Restrict(@, DOMAIN @ \ {id})]

StateRemove(M, id) ==
    Save([M EXCEPT !.states = Restrict(@, DOMAIN @ \ {id})])

(***************************************************************************)
(* MainBridge construction and close(), as far as the manager sees them.   *)
(***************************************************************************)
BridgeOpen(M, name) == [M EXCEPT !.listening = @ \cup {name}]

BridgeClose(M, name) ==
    [M EXCEPT !.listening = @ \ {name}, !.closed = @ \cup {name}]

(***************************************************************************)
(* PluginManager.load.  outcome "import_error" stands for a missing entry  *)
(* file and for a failing import alike: both return False before a record  *)
(* exists.                                                                 *)
(***************************************************************************)
LoadOutcomes == {"ok", "import_error", "instantiate_error"}

NewRecord(name) ==
    [socket_name |-> name, restart_count |-> 0, active |-> FALSE,
     process |-> NoProc, bridge |-> name]

LoadLeaky(M, id, outcome) ==
    IF id \in DOMAIN M.records THEN Return(M, TRUE)
    ELSE IF id \notin M.dirs THEN Return(M, FALSE)
    ELSE IF outcome = "import_error" THEN Return(M, FALSE)
    ELSE
        LET name == M.nextName
            M1 == [M EXCEPT !.records = (id :> NewRecord(name)) @@ @,
                            !.nextName = @ + 1]
            M2 == BridgeOpen(M1, name)
        IN  IF outcome = "instantiate_error"
                THEN Return([M2 EXCEPT !.records = Restrict(@, DOMAIN @ \ {id})], FALSE)
                ELSE Return(Emit(M2, "plugin_loaded", id), TRUE)

LoadAgain(M, id, outcome) ==
    IF id \notin M.dirs THEN Return(M, FALSE)
    ELSE IF outcome = "import_error" THEN Return(M, FALSE)
    ELSE
        LET name == M.nextName
            M1 == [M EXCEPT !.records = (id :> NewRecord(name)) @@ @,
                            !.nextName = @ + 1]
            M2 == BridgeOpen(M1, name)
        IN  IF outcome = "instantiate_error"
                THEN Return([BridgeClose(M2, name) EXCEPT
                                !.records = Restrict(@, DOMAIN @ \ {id})], FALSE)
                ELSE Return(Emit(M2, "plugin_loaded", id), TRUE)

Load(M, id, outcome) ==
    IF id \in DOMAIN M.records THEN Return(M, TRUE)
    ELSE IF id \notin M.dirs THEN Return(M, FALSE)
    ELSE IF outcome = "import_error" THEN Return(M, FALSE)
    ELSE
        LET name == M.nextName
            M1 == [M EXCEPT !.records = (id :> NewRecord(name)) @@ @,
                            !.nextName = @ + 1]
            M2 == BridgeOpen(M1, name)
        IN  IF outcome = "instantiate_error"
                THEN Return([BridgeClose(M2, name) EXCEPT
                                !.records = Restrict(@, DOMAIN @ \ {id})], FALSE)
                ELSE Return(Emit(M2, "plugin_loaded", id), TRUE)

(***************************************************************************)
(* PluginManager.start.  started is the result of waitForStarted(3000).    *)
(***************************************************************************)
NewProcess(id, name) ==
    [pid |-> id, name |-> name, os |-> "alive", q |-> "Running",
     connected |-> TRUE, stopped |-> FALSE]

StartUnwaited(M, id, started) ==
    IF id \notin DOMAIN M.records THEN Return(M, FALSE)
    ELSE IF M.records[id].active THEN Return(M, TRUE)
    ELSE
        LET M1 == [M EXCEPT !.records[id].restart_count = 0]
            h  == Len(M.procs) + 1
        IN  IF ~started THEN Return([M1 EXCEPT !.records[id].active = TRUE], FALSE)
            ELSE
                LET M2 == [M1 EXCEPT
                              !.procs = Append(@, NewProcess(id, M.records[id].socket_name)),
                              !.records[id].process = h,
                              !.records[id].active = TRUE]
                    M3 == Emit(M2, "spawn", id)
                IN  Return(Emit(RecordRun(M3, id), "plugin_started", id), TRUE)

StartAgain(M, id, started) ==
    IF id \notin DOMAIN M.records THEN Return(M, FALSE)
    ELSE
        LET M1 == [M EXCEPT !.records[id].restart_count = 0]
            h  == Len(M.procs) + 1
        IN  IF ~started THEN Return(M1, FALSE)
            ELSE
                LET M2 == [M1 EXCEPT
                              !.procs = Append(@, NewProcess(id, M.records[id].socket_name)),
                              !.records[id].process = h,
                              !.records[id].active = TRUE]
                    M3 == Emit(M2, "spawn", id)
                IN  Return(Emit(RecordRun(M3, id), "plugin_started", id), TRUE)

Start(M, id, started) ==
    IF id \notin DOMAIN M.records THEN Return(M, FALSE)
    ELSE IF M.records[id].active THEN Return(M, TRUE)
    ELSE
        LET M1 == [M EXCEPT !.records[id].restart_count = 0]
            h  == Len(M.procs) + 1
        IN  IF ~started THEN Return(M1, FALSE)
            ELSE
                LET M2 == [M1 EXCEPT
                              !.procs = Append(@, NewProcess(id, M.records[id].socket_name)),
                              !.records[id].process = h,
                              !.records[id].active = TRUE]
                    M3 == Emit(M2, "spawn", id)
                IN  Return(Emit(RecordRun(M3, id), "plugin_started", id), TRUE)

(***************************************************************************)
(* PluginManager.stop                                                      *)
(***************************************************************************)
Terminate(M, p) == [M EXCEPT !.procs[p].stopped = TRUE]

StopInactive(M, id) ==
    IF id \notin DOMAIN M.records THEN M
    ELSE
        LET p  == M.records[id].process
            M1 == [M EXCEPT !.stops = @ \cup {id}, !.records[id].active = FALSE]
            M2 == Emit(M1, "send_command_stop", id)
            M3 == IF p # NoProc /\ M2.procs[p].q # "NotRunning"
                      THEN [Emit(Terminate(M2, p), "terminate", id) EXCEPT
                               !.ktimers = @ \cup {p}]
                      ELSE M2
        IN  Emit(M3, "plugin_stopped", id)

Stop(M, id) ==
    IF id \notin DOMAIN M.records \/ ~M.records[id].active THEN M
    ELSE
        LET p  == M.records[id].process
            M1 == [M EXCEPT !.stops = @ \cup {id}, !.records[id].active = FALSE]
            M2 == Emit(M1, "send_command_stop", id)
            M3 == IF p # NoProc /\ M2.procs[p].q # "NotRunning"
                      THEN [Emit(Terminate(M2, p), "terminate", id) EXCEPT
                               !.ktimers = @ \cup {p}]
                      ELSE M2
        IN  Emit(M3, "plugin_stopped", id)

(***************************************************************************)
(* PluginManager._handle_process_finished                                  *)
(***************************************************************************)
IsCrashExitAnyCode(was_active, exit) == was_active

IsCrashExit(was_active, exit) ==
    was_active /\ (exit.status = "CrashExit" \/ exit.code # 0)

HandleProcessFinished(M, id, exit) ==
    IF id \notin DOMAIN M.records THEN M
    ELSE
        LET intentional == id \in M.stops
            was_active  == M.records[id].active
            M1 == [M EXCEPT !.stops = @ \ {id}, !.records[id].active = FALSE]
        IN  IF intentional THEN M1
            ELSE IF IsCrashExit(was_active, exit) THEN
                LET M2 == [M1 EXCEPT !.records[id].restart_count = @ + 1]
                    M3 == Emit(RecordCrash(M2, id), "plugin_crashed", id)
                IN  IF M3.records[id].restart_count <= _MAX_RESTARTS
                        THEN [Emit(M3, "schedule_restart", id) EXCEPT
                                 !.rtimers[id] = @ + 1]
                        ELSE M3
            ELSE Emit(M1, "plugin_stopped", id)

(***************************************************************************)
(* QProcess: the host notices the exit of process p.  The process becomes  *)
(* NotRunning and finished(code, status) is emitted; the handler runs if   *)
(* the signal is still connected.                                          *)
(***************************************************************************)
FinishProcess(M, p, exit) ==
    LET M1 == [M EXCEPT !.procs[p].q = "NotRunning", !.procs[p].os = "dead",
                        !.procs[p].stopped = FALSE]
    IN  IF M.procs[p].connected
            THEN HandleProcessFinished(M1, M.procs[p].pid, exit)
            ELSE M1

Kill(M, p) ==
    IF M.procs[p].os = "alive" THEN [M EXCEPT !.procs[p].os = "killed"] ELSE M

(* waitForFinished(msecs) on process p.  how is TimedOut or the exit the   *)
(* process makes within the wait.                                          *)
TimedOut == [code |-> 0, status |-> "TimedOut"]

WaitOutcomes == {TimedOut, [code |-> 0, status |-> "NormalExit"], KilledExit}

WaitForFinished(M, p, how) ==
    IF M.procs[p].q = "NotRunning" THEN M
    ELSE IF M.procs[p].os = "alive" /\ how = TimedOut THEN M
    ELSE IF how \in ExitsOf(M.procs[p].os) THEN FinishProcess(M, p, how)
    ELSE FinishProcess(M, p, KilledExit)

(***************************************************************************)
(* PluginManager.stop_all.  hows[id] is the outcome of waitForFinished     *)
(* (2500) for the process of id; after a timeout the process is killed     *)
(* and waitForFinished(1000) observes its exit.                            *)
(***************************************************************************)
StopAllOneNoKill(M, id, how) ==
    IF id \notin DOMAIN M.records \/ ~M.records[id].active THEN M
    ELSE
        LET p  == M.records[id].process
            M1 == [M EXCEPT !.stops = @ \cup {id}, !.records[id].active = FALSE]
            M2 == Emit(M1, "send_command_stop", id)
        IN  IF p # NoProc /\ M2.procs[p].q # "NotRunning"
                THEN WaitForFinished(Emit(Terminate(M2, p), "terminate", id), p, how)
                ELSE M2

StopAllOne(M, id, how) ==
    IF id \notin DOMAIN M.records \/ ~M.records[id].active THEN M
    ELSE
        LET p  == M.records[id].process
            M1 == [M EXCEPT !.stops = @ \cup {id}, !.records[id].active = FALSE]
            M2 == Emit(M1, "send_command_stop", id)
        IN  IF p # NoProc /\ M2.procs[p].q # "NotRunning"
                THEN LET M3 == WaitForFinished(Emit(Terminate(M2, p), "terminate", id), p, how)
                     IN  IF M3.procs[p].q # "NotRunning"
                             THEN WaitForFinished(Emit(Kill(M3, p), "kill", id), p, KilledExit)
                             ELSE M3
                ELSE M2

RECURSIVE StopAllLoop(_, _, _)
StopAllLoop(M, todo, hows) ==
    IF todo = {} THEN M
    ELSE LET id == CHOOSE i \in todo : TRUE
         IN  StopAllLoop(StopAllOne(M, id, hows[id]), todo \ {id}, hows)

StopAll(M, hows) == StopAllLoop(M, DOMAIN M.records, hows)

(***************************************************************************)
(* PluginManager.delete_plugin.  how is the outcome of waitForFinished     *)
(* (1500), rm_ok whether shutil.rmtree succeeds.                           *)
(***************************************************************************)
StopAndWait(M, id, how) ==
    IF IsActive(M, id)
        THEN LET M1 == Stop(M, id)
                 p  == M1.records[id].process
             IN  IF p # NoProc THEN WaitForFinished(M1, p, how) ELSE M1
        ELSE M

DeletePlugin(M, id, how, rm_ok) ==
    LET M1 == StopAndWait(M, id, how)
        M2 == IF id \in DOMAIN M1.records
                  THEN LET r  == M1.records[id]
                           Ma == [BridgeClose(M1, r.bridge) EXCEPT
                                     !.records = Restrict(@, DOMAIN @ \ {id})]
                       IN  IF r.process # NoProc
                               THEN [Ma EXCEPT !.procs[r.process].connected = FALSE]
                               ELSE Ma
                  ELSE M1
        M3 == StateRemove(M2, id)
    IN  IF id \in M3.dirs
            THEN IF rm_ok
                     THEN Return(Emit([M3 EXCEPT !.dirs = @ \ {id}], "plugin_deleted", id),
                                 <<TRUE, "">>)
                     ELSE Return(M3, <<FALSE, "Failed to remove plugin files">>)
            ELSE Return(Emit(M3, "plugin_deleted", id), <<TRUE, "">>)

(***************************************************************************)
(* PluginManager.reload_plugin                                             *)
(***************************************************************************)
ReloadPluginKeepRecord(M, id, how, outcome, started) ==
    LET was_active == IsActive(M, id)
        M1 == StopAndWait(M, id, how)
        M3 == Load(M1, id, outcome)
    IN  IF M3.ret = FALSE THEN M3
        ELSE IF was_active THEN Start(M3, id, started)
        ELSE Return(M3, TRUE)

ReloadPlugin(M, id, how, outcome, started) ==
    LET was_active == IsActive(M, id)
        M1 == StopAndWait(M, id, how)
        M2 == IF id \in DOMAIN M1.records
                  THEN [BridgeClose(M1, M1.records[id].bridge) EXCEPT
                           !.records = Restrict(@, DOMAIN @ \ {id})]
                  ELSE M1
        M3 == Load(M2, id, outcome)
    IN  IF M3.ret = FALSE THEN M3
        ELSE IF was_active THEN Start(M3, id, started)
        ELSE Return(M3, TRUE)

(***************************************************************************)
(* PluginManager.import_plugin, for an archive whose top directory is id   *)
(* and whose manifest is valid and declares id.                            *)
(***************************************************************************)
ImportPlugin(M, id) ==
    IF id \in M.dirs
        THEN Return(M, <<FALSE, "A plugin directory already exists">>)
        ELSE Return(Emit([M EXCEPT !.dirs = @ \cup {id}], "plugin_imported", id),
                    <<TRUE, id>>)

(***************************************************************************)
(* The forced-kill timer of stop(): _safe_kill.                            *)
(***************************************************************************)
SafeKillCurrent(M, p) ==
    LET M1  == [M EXCEPT !.ktimers = @ \ {p}]
        id  == M1.procs[p].pid
        cur == IF id \in DOMAIN M1.records THEN M1.records[id].process ELSE NoProc
    IN  IF cur # NoProc /\ M1.procs[cur].q # "NotRunning"
            THEN Emit(Kill(M1, cur), "kill", id)
            ELSE M1

SafeKillNever(M, p) == [M EXCEPT !.ktimers = @ \ {p}]

SafeKill(M, p) ==
    LET M1 == [M EXCEPT !.ktimers = @ \ {p}]
    IN  IF M1.procs[p].q # "NotRunning"
            THEN Emit(Kill(M1, p), "kill", M1.procs[p].pid)
            ELSE M1

(***************************************************************************)
(* PluginStateManager with every field of PluginState.  A timestamp is the *)
(* second it was taken in, and 0 is the empty string.  The state file is   *)
(* absent, or not JSON, or a JSON object of entries; an entry of a file    *)
(* the store did not write may lack fields and may hold unknown ones.      *)
(***************************************************************************)
Fields == {"enabled", "favorite", "installed_at", "run_count", "last_run", "crash_count"}

DefaultOf(k, t) ==
    CASE k = "enabled" -> TRUE
      [] k = "favorite" -> FALSE
      [] k = "installed_at" -> t
      [] k = "run_count" -> 0
      [] k = "last_run" -> 0
      [] k = "crash_count" -> 0

PluginState(kw, t) == [k \in Fields |-> IF k \in DOMAIN kw THEN kw[k] ELSE DefaultOf(k, t)]

Absent == [kind |-> "absent", entries |-> <<>>]

Garbled == [kind |-> "garbled", entries |-> <<>>]

Dumps(data) == [kind |-> "json", entries |-> data]

_load(f, t) ==
    IF f.kind # "json" THEN <<>>
    ELSE [pid \in DOMAIN f.entries |->
             LET sd       == f.entries[pid]
                 filtered == [k \in DOMAIN sd \cap Fields |-> sd[k]]
             IN  PluginState(filtered, t)]

_saveNoLastRun(S) ==
    [S EXCEPT !.wrote = TRUE,
              !.file = Dumps([pid \in DOMAIN S.states |->
                                    [k \in Fields \ {"last_run"} |-> S.states[pid][k]]])]

_save(S) ==
    [S EXCEPT !.wrote = TRUE,
              !.file = Dumps([pid \in DOMAIN S.states |-> S.states[pid]])]

get(S, plugin_id, t) ==
    IF plugin_id \notin DOMAIN S.states
        THEN _save([S EXCEPT !.states = (plugin_id :> PluginState(<<>>, t)) @@ @])
        ELSE S

set_favorite(S, plugin_id, value, t) ==
    _save([get(S, plugin_id, t) EXCEPT !.states[plugin_id].favorite = value])

set_enabled(S, plugin_id, value, t) ==
    _save([get(S, plugin_id, t) EXCEPT !.states[plugin_id].enabled = value])

record_run(S, plugin_id, t) ==
    _save([get(S, plugin_id, t) EXCEPT !.states[plugin_id].run_count = @ + 1,
                                       !.states[plugin_id].last_run = t])

record_crash(S, plugin_id, t) ==
    _save([get(S, plugin_id, t) EXCEPT !.states[plugin_id].crash_count = @ + 1])

remove(S, plugin_id) ==
    _save([S EXCEPT !.states = Restrict(@, DOMAIN @ \ {plugin_id})])

(* PluginStateManager.__init__ on the state file f.                        *)
Constructed(f) ==
    /\ _file = f
    /\ now = 1
    /\ _states = _load(f, 1)
    /\ called = "none"
    /\ written = FALSE

Range(s) == { s[i] : i \in DOMAIN s }

NoExit == [code |-> 0, status |-> "none"]

(***************************************************************************)
(* The worker process (worker_host.main): the WorkerBridge, the thread     *)
(* that runs plugin.start(), and the event loop.  The record is the        *)
(* process when app.exec() is entered.                                     *)
(***************************************************************************)
MaxSends == 1

MaxCmds == 1

Bootstrapped ==
    [_socket |-> "unconnected",     \* WorkerBridge._socket.state()
     _retry_timer |-> TRUE,         \* WorkerBridge._retry_timer is active
     _shutting_down |-> FALSE,      \* WorkerBridge._shutting_down
     _running |-> FALSE,            \* PluginBase._running
     thread |-> "pending",          \* _PluginThread: pending, running, returned, raised
     quit_timers |-> 0,             \* pending QTimer.singleShot(400, quit)
     posted_quit |-> FALSE,         \* a quit() queued to the loop by another thread
     app |-> "exec",                \* app.exec(): exec, returned (the process exits)
     host |-> "listening",          \* the host's end: listening, closed
     inbox |-> 0,                   \* "stop" commands received and not yet read
     hangup |-> FALSE]              \* the socket's disconnected signal is pending

NoLog ==
    [stops |-> 0,                   \* calls of plugin.stop()
     quits |-> 0,                   \* exits scheduled by _handle_stop
     late_attempts |-> 0,           \* connectToServer calls after _handle_stop ran
     handled |-> {},                \* "stop": a stop command, "gone": the disconnect
     writers |-> {},                \* threads that called _socket.write
     sends |-> 0,                   \* send_data calls of the plugin
     stop_cmds |-> 0,               \* "stop" commands the host sent
     caught |-> FALSE]              \* run() caught an exception of plugin.start()

WCur == [w |-> worker_host, log |-> wlog]

(* WorkerBridge._write, called on the thread `who`: the caller's thread    *)
(* writes to the socket itself.                                            *)
WorkerWrite(X, who) ==
    IF X.w._socket # "connected" THEN X
    ELSE [X EXCEPT !.log.writers = @ \cup {who}]

(* WorkerBridge.send_data and send_event                                   *)
WorkerSendData(X, who) == WorkerWrite([X EXCEPT !.log.sends = @ + 1], who)

WorkerSendEvent(X, who) == WorkerWrite(X, who)

(* WorkerBridge._try_connect, on the loop thread                           *)
WorkerTryConnect(X) ==
    IF X.w._shutting_down THEN [X EXCEPT !.w._retry_timer = FALSE]
    ELSE IF X.w._socket = "connected" THEN [X EXCEPT !.w._retry_timer = FALSE]
    ELSE LET X1 == [X EXCEPT !.log.late_attempts =
                                 IF X.log.handled # {} THEN @ + 1 ELSE @]
         IN  IF X1.w.host = "listening"
                 THEN WorkerSendEvent([X1 EXCEPT !.w._socket = "connected",
                                                 !.w._retry_timer = FALSE], "loop")
                 ELSE X1

(* WorkerBridge._handle_stop                                               *)
WorkerHandleStopUnguarded(X) ==
    [X EXCEPT !.w._shutting_down = TRUE,
              !.w._retry_timer = FALSE,
              !.w._running = FALSE,
              !.log.stops = @ + 1,
              !.w.quit_timers = @ + 1,
              !.log.quits = @ + 1]

WorkerHandleStop(X) ==
    IF X.w._shutting_down THEN X
    ELSE [X EXCEPT !.w._shutting_down = TRUE,
                   !.w._retry_timer = FALSE,
                   !.w._running = FALSE,
                   !.log.stops = @ + 1,
                   !.w.quit_timers = @ + 1,
                   !.log.quits = @ + 1]

(* WorkerBridge._on_ready_read: every line read is a "stop" command.       *)
RECURSIVE WorkerOnReadyRead(_)
WorkerOnReadyRead(X) ==
    IF X.w.inbox = 0 THEN X
    ELSE WorkerOnReadyRead(
             WorkerHandleStop([X EXCEPT !.w.inbox = @ - 1,
                                        !.log.handled = @ \cup {"stop"}]))

(* WorkerBridge._on_disconnected                                           *)
WorkerOnDisconnected(X) ==
    WorkerHandleStop([X EXCEPT !.w._socket = "unconnected",
                               !.w.hangup = FALSE,
                               !.log.handled = @ \cup {"gone"}])

(* _PluginThread.run: plugin.start() runs, then returns or raises.         *)
PluginStart(X) == [X EXCEPT !.w.thread = "running", !.w._running = TRUE]

QuitFromThread(X) ==
    IF X.w.app = "exec" THEN [X EXCEPT !.w.posted_quit = TRUE] ELSE X

PluginThreadRunNoFinally(X, how) ==
    IF how = "raises"
        THEN [X EXCEPT !.w.thread = "raised", !.log.caught = TRUE]
        ELSE QuitFromThread([X EXCEPT !.w.thread = "returned"])

PluginThreadRun(X, how) ==
    IF how = "raises"
        THEN QuitFromThread([X EXCEPT !.w.thread = "raised", !.log.caught = TRUE])
        ELSE QuitFromThread([X EXCEPT !.w.thread = "returned"])

(* QCoreApplication.quit on the loop thread: app.exec() returns and        *)
(* sys.exit ends the process.                                              *)
Quit(X) == [X EXCEPT !.w.app = "returned"]

(***************************************************************************)
(* Initial state: the manager after construction, every plugin of Ids on   *)
(* disk, no state file.                                                    *)
(***************************************************************************)
ManagerInit ==
    /\ records = <<>>
    /\ intentional_stops = {}
    /\ procs = <<>>
    /\ states = <<>>
    /\ file = <<>>
    /\ restartTimers = [i \in Ids |-> 0]
    /\ killTimers = {}
    /\ nextName = 1
    /\ listening = {}
    /\ closedBridges = {}
    /\ dirs = Ids
    /\ lastOp = [op |-> "init", id |-> "", proc |-> NoProc, exit |-> NoExit,
                 was_active |-> FALSE, was_marked |-> FALSE, out |-> <<>>]
    /\ consec = [i \in Ids |-> 0]
    /\ _server = "none"
    /\ _conn = 0
    /\ _buf = <<>>
    /\ workers = <<>>
    /\ data_received = <<>>
    /\ bactive = FALSE
    /\ plugins_dir = <<>>
    /\ manifests = <<>>
    /\ imported = [ok |-> FALSE, id |-> ""]
    /\ worker_host = Bootstrapped
    /\ wlog = NoLog
    /\ notified = [i \in Ids |-> <<>>]

Init == ManagerInit /\ Constructed(Absent)

(* The manager's state after an operation that ends in M.                  *)
Commit(M) ==
    /\ records' = M.records
    /\ intentional_stops' = M.stops
    /\ procs' = M.procs
    /\ states' = M.states
    /\ file' = M.file
    /\ restartTimers' = M.rtimers
    /\ killTimers' = M.ktimers
    /\ nextName' = M.nextName
    /\ listening' = M.listening
    /\ closedBridges' = M.closed
    /\ dirs' = M.dirs

(* The model stops spawning and loading at its bounds.                     *)
Bounded(M) == Len(M.procs) <= MaxProcs /\ M.nextName <= MaxLoads + 1

Step(M) == Bounded(M) /\ Commit(M) /\ UNCHANGED <<lastOp, consec, bvars, fvars, svars, ovars>>

(***************************************************************************)
(* Actions: calls made by the application, and callbacks of the loop.      *)
(* An input the call does not read takes one value only.                   *)
(***************************************************************************)
Unused(x, v, used) == used \/ x = v

Running(M, id) ==
    /\ IsActive(M, id)
    /\ M.records[id].process # NoProc
    /\ M.procs[M.records[id].process].q # "NotRunning"

LoadCall(id, outcome) ==
    /\ Unused(outcome, "ok", id \notin DOMAIN records /\ id \in dirs)
    /\ Step(Load(Cur, id, outcome))

StartCall(id, started) ==
    /\ Unused(started, TRUE, id \in DOMAIN records /\ ~records[id].active)
    /\ Step(Start(Cur, id, started))

StopCall(id) == Step(Stop(Cur, id))

StopAllCall(hows) ==
    /\ \A id \in Ids : Unused(hows[id], TimedOut, Running(Cur, id))
    /\ Step(StopAll(Cur, hows))

DeleteCall(id, how, rm_ok) ==
    /\ Unused(how, TimedOut, Running(Cur, id))
    /\ Unused(rm_ok, TRUE, id \in dirs)
    /\ Step(DeletePlugin(Cur, id, how, rm_ok))

ReloadCall(id, how, outcome, started) ==
    /\ Unused(how, TimedOut, Running(Cur, id))
    /\ Unused(outcome, "ok", id \in dirs)
    /\ Unused(started, TRUE, IsActive(Cur, id) /\ id \in dirs /\ outcome = "ok")
    /\ Step(ReloadPlugin(Cur, id, how, outcome, started))

ImportCall(id) == Step(ImportPlugin(Cur, id))

(* A worker process exits: it crashes, its plugin returns, it obeys the    *)
(* stop command or the termination request.                                *)
Exited(M, p) == [M EXCEPT !.procs[p].os = "exited"]

WorkerExits(p) ==
    /\ p \in DOMAIN procs
    /\ procs[p].os = "alive"
    /\ Step(Exited(Cur, p))

(* The loop delivers QProcess.finished(exit.code, exit.status) of p.       *)
ProcessFinished(p, exit) ==
    /\ p \in DOMAIN procs
    /\ procs[p].os \in {"exited", "killed"}
    /\ procs[p].q = "Running"
    /\ exit \in ExitsOf(procs[p].os)
    /\ Step(FinishProcess(Cur, p, exit))

(* The restart timer armed by the crash handler fires: self.start(id).     *)
TimerStart(M, id, started) == Start([M EXCEPT !.rtimers[id] = @ - 1], id, started)

RestartTimerFires(id, started) ==
    /\ restartTimers[id] > 0
    /\ Unused(started, TRUE, id \in DOMAIN records /\ ~records[id].active)
    /\ Step(TimerStart(Cur, id, started))

(* The forced-kill timer armed by stop() fires.                            *)
KillTimerFires(p) ==
    /\ p \in killTimers
    /\ Step(SafeKill(Cur, p))

Next ==
    \/ \E id \in Ids, outcome \in LoadOutcomes : LoadCall(id, outcome)
    \/ \E id \in Ids, started \in BOOLEAN : StartCall(id, started)
    \/ \E id \in Ids : StopCall(id)
    \/ \E hows \in [Ids -> WaitOutcomes] : StopAllCall(hows)
    \/ \E id \in Ids, how \in WaitOutcomes, rm_ok \in BOOLEAN : DeleteCall(id, how, rm_ok)
    \/ \E id \in Ids, how \in WaitOutcomes, outcome \in LoadOutcomes, started \in BOOLEAN :
           ReloadCall(id, how, outcome, started)
    \/ \E id \in Ids : ImportCall(id)
    \/ \E p \in DOMAIN procs : WorkerExits(p)
    \/ \E p \in DOMAIN procs, exit \in ExitKinds : ProcessFinished(p, exit)
    \/ \E id \in Ids, started \in BOOLEAN : RestartTimerFires(id, started)
    \/ \E p \in killTimers : KillTimerFires(p)

Spec == Init /\ [][Next]_vars

(* The event loop of the host keeps running: while forced-kill timers are  *)
(* armed, one of them fires.  Nothing obliges a worker to exit or a caller *)
(* to call.                                                                *)
FairSpec == Spec /\ WF_vars(\E p \in killTimers : KillTimerFires(p))

(***************************************************************************)
(* NotifySpec: the manager's operations on loaded plugins, with the        *)
(* history of the lifecycle signals each operation emitted, per plugin id. *)
(***************************************************************************)
Lifecycle == {"plugin_started", "plugin_stopped", "plugin_crashed"}

RECURSIVE SignalsOf(_, _)
SignalsOf(out, id) ==
    IF out = <<>> THEN <<>>
    ELSE LET rest == SignalsOf(Tail(out), id)
         IN  IF Head(out)[2] = id /\ Head(out)[1] \in Lifecycle
                 THEN <<Head(out)[1]>> \o rest
                 ELSE rest

Noted(M) ==
    /\ Bounded(M)
    /\ Commit(M)
    /\ notified' = [id \in Ids |-> notified[id] \o SignalsOf(M.out, id)]
    /\ UNCHANGED <<lastOp, consec, bvars, fvars, svars, worker_host, wlog>>

NotedLoad(id) == Noted(Load(Cur, id, "ok"))

NotedStart(id, started) ==
    /\ Unused(started, TRUE, id \in DOMAIN records /\ ~records[id].active)
    /\ Noted(Start(Cur, id, started))

NotedStop(id) == Noted(Stop(Cur, id))

NotedStopAll(hows) ==
    /\ \A id \in Ids : Unused(hows[id], TimedOut, Running(Cur, id))
    /\ Noted(StopAll(Cur, hows))

NotedExit(p) ==
    /\ procs[p].os = "alive"
    /\ Noted(Exited(Cur, p))

NotedFinished(p, exit) ==
    /\ procs[p].os \in {"exited", "killed"}
    /\ procs[p].q = "Running"
    /\ exit \in ExitsOf(procs[p].os)
    /\ Noted(FinishProcess(Cur, p, exit))

NotedRestart(id, started) ==
    /\ restartTimers[id] > 0
    /\ Unused(started, TRUE, id \in DOMAIN records /\ ~records[id].active)
    /\ Noted(TimerStart(Cur, id, started))

NotedKill(p) == Noted(SafeKill(Cur, p))

NotifyNext ==
    \/ \E id \in Ids : NotedLoad(id)
    \/ \E id \in Ids, started \in BOOLEAN : NotedStart(id, started)
    \/ \E id \in Ids : NotedStop(id)
    \/ \E hows \in [Ids -> WaitOutcomes] : NotedStopAll(hows)
    \/ \E p \in DOMAIN procs : NotedExit(p)
    \/ \E p \in DOMAIN procs, exit \in ExitKinds : NotedFinished(p, exit)
    \/ \E id \in Ids, started \in BOOLEAN : NotedRestart(id, started)
    \/ \E p \in killTimers : NotedKill(p)

NotifySpec == Init /\ [][NotifyNext]_vars

(***************************************************************************)
(* LifeSpec: the start / stop / crash / restart life of the plugins once   *)
(* loaded, followed over more worker generations than Spec, with the       *)
(* history of the last operation and of the crashes since the last start() *)
(* made by a caller.                                                       *)
(***************************************************************************)
Traced(M, op, id, p, exit, explicit) ==
    /\ Len(M.procs) <= MaxLifeProcs
    /\ Commit(M)
    /\ UNCHANGED <<bvars, fvars, svars, ovars>>
    /\ lastOp' = [op |-> op, id |-> id, proc |-> p, exit |-> exit,
                  was_active |-> IsActive(Cur, id),
                  was_marked |-> id \in intentional_stops, out |-> M.out]
    /\ consec' = [i \in Ids |->
                    IF <<"plugin_crashed", i>> \in Range(M.out) THEN consec[i] + 1
                    ELSE IF explicit /\ i = id THEN 0
                    ELSE consec[i]]

LifeLoad(id) ==
    /\ id \notin DOMAIN records
    /\ nextName = 1
    /\ Traced(Load(Cur, id, "ok"), "load", id, NoProc, NoExit, FALSE)

LifeStart(id) == Traced(Start(Cur, id, TRUE), "start", id, NoProc, NoExit, TRUE)

LifeStop(id) == Traced(Stop(Cur, id), "stop", id, NoProc, NoExit, FALSE)

LifeExit(p) ==
    /\ p \in DOMAIN procs
    /\ procs[p].os = "alive"
    /\ Traced(Exited(Cur, p), "worker_exit", procs[p].pid, p, NoExit, FALSE)

LifeFinished(p, exit) ==
    /\ p \in DOMAIN procs
    /\ procs[p].os \in {"exited", "killed"}
    /\ procs[p].q = "Running"
    /\ exit \in ExitsOf(procs[p].os)
    /\ Traced(FinishProcess(Cur, p, exit), "finished", procs[p].pid, p, exit, FALSE)

LifeRestart(id) ==
    /\ restartTimers[id] > 0
    /\ Traced(TimerStart(Cur, id, TRUE), "restart_timer", id, NoProc, NoExit, FALSE)

LifeKill(p) ==
    /\ p \in killTimers
    /\ Traced(SafeKill(Cur, p), "kill_timer", procs[p].pid, p, NoExit, FALSE)

LifeNext ==
    \/ \E id \in Ids : LifeLoad(id)
    \/ \E id \in Ids : LifeStart(id)
    \/ \E id \in Ids : LifeStop(id)
    \/ \E p \in DOMAIN procs : LifeExit(p)
    \/ \E p \in DOMAIN procs, exit \in ExitKinds : LifeFinished(p, exit)
    \/ \E id \in Ids : LifeRestart(id)
    \/ \E p \in killTimers : LifeKill(p)

LifeSpec == Init /\ [][LifeNext]_vars

(***************************************************************************)
(* The IPC channel of one record: its MainBridge, from load() to close(),  *)
(* and the workers start() spawns with the record's socket_name.  Bytes    *)
(* are modelled in pieces: a message line is a head piece, a tail piece    *)
(* and the newline.  Message 0 of a worker is its "ready" event, messages  *)
(* 1, 2, ... are its data messages.                                        *)
(***************************************************************************)
NoConn == 0

Newline == [w |-> 0, k |-> 0, part |-> "nl"]

Piece(w, k, part) == [w |-> w, k |-> k, part |-> part]

(* json.dumps(...) + "\n"                                                  *)
Payload(w, k) == << Piece(w, k, "head"), Piece(w, k, "tail"), Newline >>

NewWorker ==
    [sock |-> "unconnected",   \* WorkerBridge._socket: unconnected, connected, closed, never
     hsock |-> "none",         \* the host's QLocalSocket: none, open, closed, deleted
     wire |-> <<>>,            \* written by the worker, not yet received by the host
     rx |-> <<>>,              \* received by the host's socket, not yet read
     nsent |-> 0,              \* data messages written in full
     nbad |-> 0,               \* lines written that are not messages
     stop_cmd |-> FALSE,       \* the "stop" command reached the worker
     dismissed |-> FALSE]      \* history: the host stopped the worker or closed the bridge

BCur ==
    [server |-> _server, conn |-> _conn, buf |-> _buf, workers |-> workers,
     got |-> data_received, active |-> bactive]

(* MainBridge._dispatch of the message decoded from a line, and the lines  *)
(* json.loads rejects.                                                     *)
WellFormed(line) ==
    /\ Len(line) = 2
    /\ line[1].part = "head"
    /\ line[2] = Piece(line[1].w, line[1].k, "tail")

Dispatch(B, line) ==
    IF line[1].k > 0 THEN [B EXCEPT !.got = Append(@, <<line[1].w, line[1].k>>)]
    ELSE B

HandleLine(B, line) ==
    IF line = <<>> THEN B
    ELSE IF ~WellFormed(line) THEN B
    ELSE Dispatch(B, line)

(* A line json.loads decodes to a value that is not an object: msg.get in  *)
(* _dispatch raises AttributeError, which _on_ready_read does not catch.   *)
NotAnObject(line) == Len(line) = 1 /\ line[1].part = "scalar"

(* MainBridge._on_ready_read: the loop over the complete lines of _buf.    *)
FirstNewline(s) == CHOOSE i \in 1..Len(s) : s[i] = Newline /\ \A j \in 1..(i - 1) : s[j] # Newline

RECURSIVE SplitLines(_)
SplitLines(B) ==
    IF \A i \in 1..Len(B.buf) : B.buf[i] # Newline THEN B
    ELSE LET i    == FirstNewline(B.buf)
             line == SubSeq(B.buf, 1, i - 1)
             rest == SubSeq(B.buf, i + 1, Len(B.buf))
         IN  IF NotAnObject(line) THEN [B EXCEPT !.buf = rest]
             ELSE SplitLines(HandleLine([B EXCEPT !.buf = rest], line))

OnReadyRead(B) ==
    IF B.conn = NoConn THEN B
    ELSE SplitLines([B EXCEPT !.buf = @ \o B.workers[B.conn].rx,
                              !.workers[B.conn].rx = <<>>])

(* MainBridge._on_new_connection, for the pending connection of worker w.  *)
OnNewConnection(B, w) == [B EXCEPT !.conn = w, !.workers[w].hsock = "open"]

(* MainBridge._on_disconnected, signalled by the socket of worker w: the   *)
(* socket self._conn names is deleted, and its peer loses the connection.  *)
OnDisconnected(B, w) ==
    LET B1 == [B EXCEPT !.workers[w].hsock = "closed"]
        c  == B1.conn
    IN  IF c # NoConn
            THEN [B1 EXCEPT !.workers[c].hsock = "deleted",
                            !.workers[c].sock = "closed",
                            !.workers[c].wire = <<>>,
                            !.conn = NoConn]
            ELSE B1

(* MainBridge.send_command("stop")                                         *)
SendCommand(B) ==
    IF B.conn = NoConn THEN B
    ELSE IF B.workers[B.conn].sock = "connected"
        THEN [B EXCEPT !.workers[B.conn].stop_cmd = TRUE]
        ELSE B

(* MainBridge.close                                                        *)
MainBridgeClose(B) ==
    LET B1 == IF B.conn # NoConn THEN OnDisconnected(B, B.conn) ELSE B
        Refused(x) == x.hsock = "none" /\ x.sock = "connected"
    IN  [B1 EXCEPT !.server = "closed",
                   !.workers = [w \in DOMAIN @ |->
                                   IF Refused(@[w])
                                       THEN [@[w] EXCEPT !.sock = "closed", !.wire = <<>>]
                                       ELSE @[w]]]

(* WorkerBridge._try_connect succeeding, and WorkerBridge.send_data.       *)
TryConnect(B, w) ==
    [B EXCEPT !.workers[w].sock = "connected",
              !.workers[w].wire = @ \o Payload(w, 0)]

SendData(B, w) ==
    IF B.workers[w].sock # "connected" THEN B
    ELSE [B EXCEPT !.workers[w].wire = @ \o Payload(w, B.workers[w].nsent + 1),
                   !.workers[w].nsent = @ + 1]

(* The sockets' bytes: n pieces written by worker w reach the host's       *)
(* socket, which signals readyRead.                                        *)
Receive(B, w, n) ==
    OnReadyRead([B EXCEPT !.workers[w].rx = @ \o SubSeq(B.workers[w].wire, 1, n),
                          !.workers[w].wire = SubSeq(@, n + 1, Len(@))])

BCommit(B) ==
    /\ _server' = B.server
    /\ _conn' = B.conn
    /\ _buf' = B.buf
    /\ workers' = B.workers
    /\ data_received' = B.got
    /\ bactive' = B.active
    /\ UNCHANGED <<mvars, fvars, svars, ovars>>

(* load() builds the bridge; start() spawns a worker on its channel;       *)
(* stop() sends the command; the exit of the current worker is handled;    *)
(* reload_plugin / delete_plugin close the bridge of the stopped plugin.   *)
BLoad ==
    /\ _server = "none"
    /\ BCommit([BCur EXCEPT !.server = "listening"])

BStart ==
    /\ _server = "listening"
    /\ ~bactive
    /\ Len(workers) < MaxWorkers
    /\ BCommit([BCur EXCEPT !.workers = Append(@, NewWorker), !.active = TRUE])

BStop ==
    /\ bactive
    /\ BCommit(SendCommand([BCur EXCEPT !.active = FALSE,
                                        !.workers[Len(workers)].dismissed = TRUE]))

BFinished ==
    /\ bactive
    /\ workers[Len(workers)].sock \in {"closed", "never"}
    /\ BCommit([BCur EXCEPT !.active = FALSE])

BClose ==
    /\ _server = "listening"
    /\ ~bactive
    /\ BCommit(MainBridgeClose([BCur EXCEPT
                !.workers = [w \in DOMAIN @ |-> [@[w] EXCEPT !.dismissed = TRUE]]]))

(* The worker's side.                                                      *)
WorkerConnects(w) ==
    /\ _server = "listening"
    /\ workers[w].sock = "unconnected"
    /\ BCommit(TryConnect(BCur, w))

WorkerSends(w) ==
    /\ workers[w].sock = "connected"
    /\ workers[w].nsent < MaxMsgs
    /\ BCommit(SendData(BCur, w))

(* The worker process ends: its socket closes.  It may end while it is     *)
(* writing a message, of which the head piece only is written.             *)
WorkerEnds(w, midwrite) ==
    /\ workers[w].sock \in {"unconnected", "connected"}
    /\ midwrite => (workers[w].sock = "connected" /\ workers[w].nsent < MaxMsgs)
    /\ BCommit([BCur EXCEPT
                   !.workers[w].sock = IF @ = "connected" THEN "closed" ELSE "never",
                   !.workers[w].wire =
                       IF midwrite
                           THEN Append(@, Piece(w, workers[w].nsent + 1, "head"))
                           ELSE @])

(* The host's event loop: it accepts the pending connections in the order  *)
(* they were made, receives bytes, and notices the end of a connection     *)
(* after the last byte.                                                    *)
HostAccepts(w) ==
    /\ _server = "listening"
    /\ workers[w].sock \in {"connected", "closed"}
    /\ workers[w].hsock = "none"
    /\ \A v \in 1..(w - 1) : workers[v].hsock # "none" \/ workers[v].sock = "never"
                                 \/ workers[v].sock = "unconnected"
    /\ BCommit(OnNewConnection(BCur, w))

HostReceives(w, n) ==
    /\ workers[w].hsock = "open"
    /\ n \in 1..Len(workers[w].wire)
    /\ BCommit(Receive(BCur, w, n))

HostDisconnected(w) ==
    /\ workers[w].hsock = "open"
    /\ workers[w].sock = "closed"
    /\ workers[w].wire = <<>>
    /\ BCommit(OnDisconnected(BCur, w))

BridgeNext ==
    \/ BLoad
    \/ BStart
    \/ BStop
    \/ BFinished
    \/ BClose
    \/ \E w \in DOMAIN workers : WorkerConnects(w)
    \/ \E w \in DOMAIN workers : WorkerSends(w)
    \/ \E w \in DOMAIN workers, midwrite \in BOOLEAN : WorkerEnds(w, midwrite)
    \/ \E w \in DOMAIN workers : HostAccepts(w)
    \/ \E w \in DOMAIN workers, n \in 1..(3 * (MaxMsgs + 1) + 1) : HostReceives(w, n)
    \/ \E w \in DOMAIN workers : HostDisconnected(w)

BridgeSpec == Init /\ [][BridgeNext]_vars

(***************************************************************************)
(* The byte stream of one connection.  Besides its messages the peer       *)
(* writes lines that are no messages: text that is not JSON, a JSON value  *)
(* that is not an object, an empty line.  The host reads the stream in     *)
(* every split.                                                            *)
(***************************************************************************)
MaxBad == 2

BadKinds == {"junk", "scalar", "blank"}

BadLine(w, k, kind) ==
    IF kind = "blank" THEN << Newline >> ELSE << Piece(w, k, kind), Newline >>

WriteBad(B, w, kind) ==
    [B EXCEPT !.workers[w].wire = @ \o BadLine(w, B.workers[w].nbad + 1, kind),
              !.workers[w].nbad = @ + 1]

PeerWritesBad(w, kind) ==
    /\ workers[w].sock = "connected"
    /\ workers[w].nbad < MaxBad
    /\ BCommit(WriteBad(BCur, w, kind))

StreamNext ==
    \/ BLoad
    \/ BStart
    \/ \E w \in DOMAIN workers : WorkerConnects(w)
    \/ \E w \in DOMAIN workers : WorkerSends(w)
    \/ \E w \in DOMAIN workers, kind \in BadKinds : PeerWritesBad(w, kind)
    \/ \E w \in DOMAIN workers : HostAccepts(w)
    \/ \E w \in DOMAIN workers, n \in 1..(3 * (MaxMsgs + 1) + 2 * MaxBad) : HostReceives(w, n)

StreamSpec == Init /\ [][StreamNext]_vars

(***************************************************************************)
(* The worker process: callbacks of its event loop, the steps of the       *)
(* plugin thread, and what the host does to the connection.  Nothing runs  *)
(* once app.exec() has returned.                                           *)
(***************************************************************************)
WCommit(X) ==
    /\ worker_host' = X.w
    /\ wlog' = X.log
    /\ UNCHANGED <<mvars, bvars, fvars, svars, notified>>

InExec == worker_host.app = "exec"

RetryTimerFires ==
    /\ InExec
    /\ worker_host._retry_timer
    /\ WCommit(WorkerTryConnect(WCur))

ThreadStarts ==
    /\ InExec
    /\ worker_host.thread = "pending"
    /\ WCommit(PluginStart(WCur))

PluginSends ==
    /\ InExec
    /\ worker_host.thread = "running"
    /\ wlog.sends < MaxSends
    /\ WCommit(WorkerSendData(WCur, "plugin"))

ThreadEnds(how) ==
    /\ InExec
    /\ worker_host.thread = "running"
    /\ WCommit(PluginThreadRun(WCur, how))

HostSendsStop ==
    /\ InExec
    /\ worker_host.host = "listening"
    /\ worker_host._socket = "connected"
    /\ wlog.stop_cmds < MaxCmds
    /\ WCommit([WCur EXCEPT !.w.inbox = @ + 1, !.log.stop_cmds = @ + 1])

HostCloses ==
    /\ InExec
    /\ worker_host.host = "listening"
    /\ WCommit([WCur EXCEPT !.w.host = "closed",
                            !.w.hangup = (worker_host._socket = "connected")])

ReadyRead ==
    /\ InExec
    /\ worker_host.inbox > 0
    /\ WCommit(WorkerOnReadyRead(WCur))

Disconnected ==
    /\ InExec
    /\ worker_host.hangup
    /\ worker_host.inbox = 0
    /\ WCommit(WorkerOnDisconnected(WCur))

QuitTimerFires ==
    /\ InExec
    /\ worker_host.quit_timers > 0
    /\ WCommit(Quit([WCur EXCEPT !.w.quit_timers = @ - 1]))

PostedQuitRuns ==
    /\ InExec
    /\ worker_host.posted_quit
    /\ WCommit(Quit([WCur EXCEPT !.w.posted_quit = FALSE]))

WorkerNext ==
    \/ RetryTimerFires
    \/ ThreadStarts
    \/ PluginSends
    \/ \E how \in {"returns", "raises"} : ThreadEnds(how)
    \/ HostSendsStop
    \/ HostCloses
    \/ ReadyRead
    \/ Disconnected
    \/ QuitTimerFires
    \/ PostedQuitRuns

WorkerSpec == Init /\ [][WorkerNext]_vars

(* The loop runs the events posted to it.                                  *)
FairWorkerSpec == WorkerSpec /\ WF_vars(PostedQuitRuns)

(***************************************************************************)
(* The state store on its own: its operations, the clock and restarts of   *)
(* the application.                                                        *)
(***************************************************************************)
(* The state files a store can be constructed on: none, one that is not    *)
(* JSON, one the store wrote, one with an unknown field, one whose entry   *)
(* lacks fields.                                                           *)
StateFiles ==
    {Absent, Garbled,
     Dumps("a" :> PluginState(<<>>, 1)),
     Dumps("a" :> [enabled |-> TRUE, favorite |-> TRUE, installed_at |-> 1,
                   run_count |-> 0, last_run |-> 0, crash_count |-> 0,
                   min_version |-> 1]),
     Dumps("a" :> [favorite |-> TRUE])}

Store == [states |-> _states, file |-> _file, wrote |-> FALSE]

StoreCommit(S, op) ==
    /\ \A pid \in DOMAIN S.states :
           S.states[pid].run_count <= MaxCount /\ S.states[pid].crash_count <= MaxCount
    /\ _states' = S.states
    /\ _file' = S.file
    /\ called' = op
    /\ written' = (written \/ S.wrote)
    /\ UNCHANGED <<mvars, bvars, fvars, now, ovars>>

GetCall(id) == StoreCommit(get(Store, id, now), "get")

SetFavoriteCall(id, value) == StoreCommit(set_favorite(Store, id, value, now), "set_favorite")

SetEnabledCall(id, value) == StoreCommit(set_enabled(Store, id, value, now), "set_enabled")

RecordRunCall(id) == StoreCommit(record_run(Store, id, now), "record_run")

RecordCrashCall(id) == StoreCommit(record_crash(Store, id, now), "record_crash")

RemoveCall(id) == StoreCommit(remove(Store, id), "remove")

(* A second passes.                                                        *)
Tick ==
    /\ now < MaxClock
    /\ now' = now + 1
    /\ UNCHANGED <<mvars, bvars, fvars, _states, _file, called, written, ovars>>

(* The application is started again: a store is constructed on the file.   *)
Reconstructed ==
    /\ _states' = _load(_file, now)
    /\ called' = "none"
    /\ UNCHANGED <<mvars, bvars, fvars, _file, now, written, ovars>>

StoreInit == ManagerInit /\ \E f \in StateFiles : Constructed(f)

StoreNext ==
    \/ \E id \in Ids : GetCall(id)
    \/ \E id \in Ids, value \in BOOLEAN : SetFavoriteCall(id, value)
    \/ \E id \in Ids, value \in BOOLEAN : SetEnabledCall(id, value)
    \/ \E id \in Ids : RecordRunCall(id)
    \/ \E id \in Ids : RecordCrashCall(id)
    \/ \E id \in Ids : RemoveCall(id)
    \/ Tick
    \/ Reconstructed

StoreSpec == StoreInit /\ [][StoreNext]_vars

(***************************************************************************)
(* The plugins directory as files.  A path is the sequence of its parts    *)
(* below the plugins root; a directory exists when a file lies under it.   *)
(* A descriptor is what json.loads makes of plugin.json: object says it is *)
(* a JSON object, name that "name" is present and not empty, rest that     *)
(* version, description, author and entry are present and well formed,     *)
(* with entry = "plugin_main.Plugin".                                      *)
(***************************************************************************)
DescriptorName == "plugin.json"

EntryName == "plugin_main.py"

Descriptor(id, name, rest) ==
    [kind |-> "json", object |-> TRUE, id |-> id, name |-> name, rest |-> rest, v |-> 0]

NotJson ==
    [kind |-> "json", object |-> FALSE, id |-> "", name |-> FALSE, rest |-> FALSE, v |-> 0]

SourceFile(v) ==
    [kind |-> "py", object |-> FALSE, id |-> "", name |-> FALSE, rest |-> FALSE, v |-> v]

(* Every path of the model, in the order sorted(rglob(...)) lists them.    *)
AllPaths ==
    << <<"a", "plugin.json">>, <<"a", "plugin_main.py">>, <<"a", "sub", "plugin.json">>,
       <<"plugin.json">>, <<"x", "plugin.json">>, <<"x", "plugin_main.py">> >>

Last(path) == path[Len(path)]

Parent(path) == SubSeq(path, 1, Len(path) - 1)

Exists(t, dir) ==
    \E q \in DOMAIN t : Len(q) > Len(dir) /\ SubSeq(q, 1, Len(dir)) = dir

(* The characters of the ids that occur in descriptors.                    *)
Spelling(id) ==
    CASE id = "a" -> <<"a">>
      [] id = "x" -> <<"x">>
      [] id = "Bad-ID!" -> <<"B", "a", "d", "-", "I", "D", "!">>
      [] OTHER -> <<>>

Lower ==
    {"a", "b", "c", "d", "e", "f", "g", "h", "i", "j", "k", "l", "m",
     "n", "o", "p", "q", "r", "s", "t", "u", "v", "w", "x", "y", "z"}

Digit == {"0", "1", "2", "3", "4", "5", "6", "7", "8", "9"}

_ID_RE(id) ==
    LET s == Spelling(id)
    IN  /\ Len(s) \in 1..64
        /\ s[1] \in Lower
        /\ \A i \in 2..Len(s) : s[i] \in Lower \cup Digit \cup {"_"}

(***************************************************************************)
(* plugin_spec.validate_manifest, for the descriptor at path               *)
(***************************************************************************)
ValidateManifest(t, path) ==
    /\ path \in DOMAIN t
    /\ t[path].object
    /\ t[path].id # "" /\ t[path].name /\ t[path].rest
    /\ _ID_RE(t[path].id)
    /\ Parent(path) \o <<EntryName>> \in DOMAIN t

(***************************************************************************)
(* PluginManifest.from_file: needs the keys "id" and "name" and nothing    *)
(* else; every other field has a default.                                  *)
(***************************************************************************)
FromFile(f) ==
    IF f.object /\ f.id # "" /\ f.name
        THEN [ok |-> TRUE, manifest |-> [id |-> f.id, complete |-> f.rest]]
        ELSE [ok |-> FALSE, manifest |-> [id |-> "", complete |-> FALSE]]

(***************************************************************************)
(* PluginManager.discover                                                  *)
(***************************************************************************)
RECURSIVE Scan(_, _)
Scan(t, i) ==
    IF i > Len(AllPaths) THEN <<>>
    ELSE
        LET path == AllPaths[i]
            here == IF path \in DOMAIN t /\ Last(path) = DescriptorName
                           /\ FromFile(t[path]).ok
                        THEN <<FromFile(t[path]).manifest>>
                        ELSE <<>>
        IN  here \o Scan(t, i + 1)

Discover(t) == Scan(t, 1)

(***************************************************************************)
(* PluginManager.import_plugin.  zf is the archive: its entries in the     *)
(* order of namelist(), each a path and the contents of the file.          *)
(***************************************************************************)
RECURSIVE ExtractAll(_, _)
ExtractAll(t, zf) ==
    IF zf = <<>> THEN t
    ELSE ExtractAll((Head(zf).path :> Head(zf).file) @@ t, Tail(zf))

RmTree(t, dir) ==
    Restrict(t, {q \in DOMAIN t : ~(Len(q) > 1 /\ q[1] = dir)})

Rename(t, dir, new) ==
    LET moved == {q \in DOMAIN t : Len(q) > 1 /\ q[1] = dir}
        To(q) == <<new>> \o Tail(q)
    IN  [q \in (DOMAIN t \ moved) \cup {To(m) : m \in moved} |->
            IF \E m \in moved : To(m) = q
                THEN t[CHOOSE m \in moved : To(m) = q]
                ELSE t[q]]

Failure(t) == [ok |-> FALSE, id |-> "", tree |-> t]

ImportZip(t, zf) ==
    LET json_entries == {i \in DOMAIN zf : Last(zf[i].path) = DescriptorName}
    IN  IF json_entries = {} THEN Failure(t)
        ELSE
            LET json_arc    == zf[CHOOSE i \in json_entries :
                                       \A j \in json_entries : i <= j].path
                archive_dir == json_arc[1]
                t1          == ExtractAll(t, zf)
                descriptor  == <<archive_dir, DescriptorName>>
            IN  IF Len(json_arc) < 2 THEN Failure(t)
                ELSE IF Exists(t, <<archive_dir>>) THEN Failure(t)
                ELSE IF ~ValidateManifest(t1, descriptor)
                    THEN Failure(RmTree(t1, archive_dir))
                ELSE IF ~FromFile(t1[descriptor]).ok
                    THEN Failure(RmTree(t1, archive_dir))
                ELSE
                    LET id == FromFile(t1[descriptor]).manifest.id
                    IN  IF id = archive_dir
                            THEN [ok |-> TRUE, id |-> id, tree |-> t1]
                        ELSE IF Exists(t1, <<id>>)
                            THEN Failure(RmTree(t1, archive_dir))
                        ELSE [ok |-> TRUE, id |-> id,
                              tree |-> Rename(t1, archive_dir, id)]

(***************************************************************************)
(* The files a user puts into the plugins directory, and the entries an    *)
(* archive can hold.                                                       *)
(***************************************************************************)
UserFiles ==
    {[path |-> <<"a", "plugin.json">>, file |-> f] :
        f \in {Descriptor("a", TRUE, TRUE), Descriptor("Bad-ID!", TRUE, TRUE),
               Descriptor("a", TRUE, FALSE), NotJson}}
    \cup {[path |-> <<"a", "sub", "plugin.json">>, file |-> Descriptor("x", TRUE, TRUE)],
          [path |-> <<"a", "plugin_main.py">>, file |-> SourceFile(1)],
          [path |-> <<"x", "plugin_main.py">>, file |-> SourceFile(1)]}

ZipEntries ==
    {[path |-> <<"x", "plugin.json">>, file |-> f] :
        f \in {Descriptor("a", TRUE, TRUE), Descriptor("x", TRUE, TRUE)}}
    \cup {[path |-> <<"a", "plugin.json">>, file |-> Descriptor("a", TRUE, TRUE)],
          [path |-> <<"plugin.json">>, file |-> NotJson],
          [path |-> <<"a", "plugin_main.py">>, file |-> SourceFile(2)],
          [path |-> <<"x", "plugin_main.py">>, file |-> SourceFile(2)]}

Archives == UNION {[1..n -> ZipEntries] : n \in 0..MaxEntries}

WriteFile(e) ==
    /\ plugins_dir' = (e.path :> e.file) @@ plugins_dir
    /\ UNCHANGED <<mvars, bvars, svars, manifests, imported, ovars>>

DiscoverCall ==
    /\ manifests' = Discover(plugins_dir)
    /\ UNCHANGED <<mvars, bvars, svars, plugins_dir, imported, ovars>>

ImportZipCall(zf) ==
    LET r == ImportZip(plugins_dir, zf)
    IN  /\ plugins_dir' = r.tree
        /\ imported' = [ok |-> r.ok, id |-> r.id]
        /\ UNCHANGED <<mvars, bvars, svars, manifests, ovars>>

FilesNext ==
    \/ \E e \in UserFiles : WriteFile(e)
    \/ DiscoverCall
    \/ \E zf \in Archives : ImportZipCall(zf)

FilesSpec == Init /\ [][FilesNext]_vars

(***************************************************************************)
(* Vocabulary of the properties.                                           *)
(***************************************************************************)
Emitted(M, what, id) == <<what, id>> \in Range(M.out)

LastEmitted(what, id) == <<what, id>> \in Range(lastOp.out)

Abnormal(exit) == exit.status = "CrashExit" \/ exit.code # 0

(* A process whose exit the loop can handle now.                           *)
Finishable(p) ==
    /\ procs[p].q = "Running"
    /\ procs[p].os \in {"exited", "killed"}

RestartCount(M, id) == IF id \in DOMAIN M.records THEN M.records[id].restart_count ELSE 0

CrashCount(M, id) == IF id \in DOMAIN M.states THEN M.states[id].crash_count ELSE 0

(***************************************************************************)
(* C1.  After start(id), of four crashes in a row with no start() by a     *)
(* caller in between, the first three each schedule a restart and the      *)
(* fourth schedules none: after it the record is loaded and inactive and   *)
(* restart_count is 4.  (LifeSpec)                                         *)
(***************************************************************************)
C1_FourthCrashGivesUp ==
    \A id \in Ids :
        (lastOp.op = "finished" /\ lastOp.id = id /\ LastEmitted("plugin_crashed", id)) =>
            /\ consec[id] <= 3 => LastEmitted("schedule_restart", id)
            /\ consec[id] = 4 =>
                   /\ ~LastEmitted("schedule_restart", id)
                   /\ id \in DOMAIN records
                   /\ ~records[id].active
                   /\ records[id].restart_count = 4

(***************************************************************************)
(* C2.  In every interleaving of stop(), start() and exit callbacks, the   *)
(* exit of a worker that stop(id) terminated is never handled as a crash:  *)
(* the handler leaves restart_count and the persisted crash_count as they  *)
(* were, emits no plugin_crashed and schedules no restart.  (LifeSpec)     *)
(***************************************************************************)
C2_StoppedExitNeverCrash ==
    \A p \in DOMAIN procs :
        (procs[p].stopped /\ Finishable(p)) =>
            \A exit \in ExitsOf(procs[p].os) :
                LET M  == FinishProcess(Cur, p, exit)
                    id == procs[p].pid
                IN  /\ ~Emitted(M, "plugin_crashed", id)
                    /\ ~Emitted(M, "schedule_restart", id)
                    /\ M.rtimers = restartTimers
                    /\ RestartCount(M, id) = RestartCount(Cur, id)
                    /\ CrashCount(M, id) = CrashCount(Cur, id)
                    /\ M.file = file

(***************************************************************************)
(* C3.  An exit handled while the record is active and the id is not       *)
(* marked as an intentional stop.                                          *)
(***************************************************************************)
UnmarkedActiveExit(p) ==
    /\ Finishable(p)
    /\ procs[p].connected
    /\ IsActive(Cur, procs[p].pid)
    /\ procs[p].pid \notin intentional_stops

(* C3 as claimed: every such exit is handled as a crash, whatever the exit *)
(* code and the exit status.  (LifeSpec)                                   *)
C3_ActiveUnmarkedExitIsCrash ==
    \A p \in DOMAIN procs :
        UnmarkedActiveExit(p) =>
            \A exit \in ExitsOf(procs[p].os) :
                Emitted(FinishProcess(Cur, p, exit), "plugin_crashed", procs[p].pid)

(* C3 as amended: such an exit is handled as a crash exactly when its exit *)
(* status is CrashExit or its exit code is not 0; a crash adds 1 to        *)
(* restart_count and to crash_count; an exit with code 0 and NormalExit    *)
(* emits plugin_stopped only and changes no counter and no timer.          *)
(* (LifeSpec)                                                              *)
C3_CrashIffAbnormalExit ==
    \A p \in DOMAIN procs :
        UnmarkedActiveExit(p) =>
            \A exit \in ExitsOf(procs[p].os) :
                LET M  == FinishProcess(Cur, p, exit)
                    id == procs[p].pid
                IN  /\ Emitted(M, "plugin_crashed", id) <=> Abnormal(exit)
                    /\ ~M.records[id].active
                    /\ Abnormal(exit) =>
                           /\ RestartCount(M, id) = RestartCount(Cur, id) + 1
                           /\ CrashCount(M, id) = CrashCount(Cur, id) + 1
                           /\ ~Emitted(M, "plugin_stopped", id)
                    /\ ~Abnormal(exit) =>
                           /\ M.out = << <<"plugin_stopped", id>> >>
                           /\ RestartCount(M, id) = RestartCount(Cur, id)
                           /\ CrashCount(M, id) = CrashCount(Cur, id)
                           /\ M.rtimers = restartTimers

(* The exit with code 0 and NormalExit of an active, unmarked plugin has   *)
(* been handled, and plugin_stopped was emitted.                           *)
C3_Witness ==
    /\ lastOp.op = "finished"
    /\ lastOp.was_active
    /\ ~lastOp.was_marked
    /\ lastOp.exit = [code |-> 0, status |-> "NormalExit"]
    /\ lastOp.out = << <<"plugin_stopped", lastOp.id>> >>

(***************************************************************************)
(* C4.  Every spawn of a worker process for a plugin uses a channel name   *)
(* that no earlier spawn for that plugin used: two worker processes of one *)
(* plugin never have the same name.  (Spec)                                *)
(***************************************************************************)
C4_FreshNamePerSpawn ==
    \A p, q \in DOMAIN procs :
        (p # q /\ procs[p].pid = procs[q].pid) => procs[p].name # procs[q].name

(***************************************************************************)
(* C5.  load(id) on a loaded id returns True and changes nothing: the      *)
(* manager's fields are those before the call and nothing is emitted; and  *)
(* the loaded ids have one record and one listening bridge each.  (Spec)   *)
(***************************************************************************)
C5_LoadIdempotent ==
    /\ \A id \in DOMAIN records, outcome \in LoadOutcomes :
           Load(Cur, id, outcome) = Return(Cur, TRUE)
    /\ listening = { records[id].bridge : id \in DOMAIN records }
    /\ Cardinality(listening) = Cardinality(DOMAIN records)

(* load("a") is called on the loaded and running plugin a.                 *)
C5_Witness ==
    /\ IsActive(Cur, "a")
    /\ LET M == Load(Cur, "a", "ok")
       IN  M.ret = TRUE /\ M.out = <<>> /\ M.records = records

NoneActive(M) == \A id \in DOMAIN M.records : ~M.records[id].active

(* C8 as claimed: when stop_all() returns, no plugin is active and every   *)
(* worker process that was running at the call has exited.  (Spec)         *)
C8_StopAllExitsAllRunning ==
    \A hows \in [Ids -> WaitOutcomes] :
        LET M == StopAll(Cur, hows)
        IN  /\ NoneActive(M)
            /\ \A p \in DOMAIN procs :
                   procs[p].os = "alive" => M.procs[p].os # "alive"

(* C8 as amended: when stop_all() returns, no plugin is active, and the    *)
(* worker process of every plugin that was active at the call was asked to *)
(* terminate and has exited, killed if the wait for its exit timed out.    *)
(* (Spec)                                                                  *)
C8_StopAllStopsActive ==
    \A hows \in [Ids -> WaitOutcomes] :
        LET M == StopAll(Cur, hows)
        IN  /\ NoneActive(M)
            /\ \A id \in DOMAIN records :
                   Running(Cur, id) =>
                       LET p == records[id].process
                       IN  /\ Emitted(M, "terminate", id)
                           /\ M.procs[p].os # "alive"
                           /\ (procs[p].os = "alive" /\ hows[id] = TimedOut) =>
                                  Emitted(M, "kill", id)

(* stop_all() with plugin a running and not exiting within the wait.       *)
C8_Witness ==
    /\ Running(Cur, "a")
    /\ procs[records["a"].process].os = "alive"
    /\ LET M == StopAll(Cur, [i \in Ids |-> TimedOut])
       IN  /\ Emitted(M, "kill", "a")
           /\ M.procs[records["a"].process].q = "NotRunning"

(***************************************************************************)
(* C10.  A reload_plugin(id) of a loaded plugin that returns True leaves a *)
(* record whose channel name is not the old record's, the old record's     *)
(* bridge closed, and the plugin active iff it was active at the call.     *)
(* (Spec)                                                                  *)
(***************************************************************************)
C10_ReloadReplaces ==
    \A id \in DOMAIN records, how \in WaitOutcomes,
       outcome \in LoadOutcomes, started \in BOOLEAN :
        LET M == ReloadPlugin(Cur, id, how, outcome, started)
        IN  M.ret = TRUE =>
                /\ IsLoaded(M, id)
                /\ M.records[id].socket_name # records[id].socket_name
                /\ M.records[id].socket_name \in M.listening
                /\ records[id].bridge \in M.closed
                /\ records[id].bridge \notin M.listening
                /\ IsActive(M, id) <=> IsActive(Cur, id)

(* reload_plugin("a") succeeds on the running plugin a.                    *)
C10_Witness ==
    /\ Running(Cur, "a")
    /\ LET M == ReloadPlugin(Cur, "a", TimedOut, "ok", TRUE)
       IN  /\ M.ret = TRUE
           /\ IsActive(M, "a")
           /\ M.records["a"].process # records["a"].process

(***************************************************************************)
(* C9.  stop(id) on an active plugin returns with the worker process as it *)
(* was, asked to terminate and with the forced-kill timer armed; and a     *)
(* process asked to terminate that is still alive is eventually not alive  *)
(* any more: it exits, or the timer kills it.  (FairSpec)                  *)
(***************************************************************************)
StopReturnsAtOnce ==
    \A id \in DOMAIN records :
        (Running(Cur, id) /\ procs[records[id].process].os = "alive") =>
            LET M == Stop(Cur, id)
                p == records[id].process
            IN  /\ M.procs[p].os = "alive"
                /\ M.procs[p].q = "Running"
                /\ M.procs[p].stopped
                /\ p \in M.ktimers
                /\ Emitted(M, "terminate", id)
                /\ ~IsActive(M, id)

C9_StoppedProcessExits ==
    /\ []StopReturnsAtOnce
    /\ \A p \in 1..MaxProcs :
           (p \in DOMAIN procs /\ procs[p].stopped /\ procs[p].os = "alive")
               ~> (p \in DOMAIN procs /\ procs[p].os # "alive")

(* A process that stop() asked to terminate did not exit and was killed by *)
(* the timer.                                                              *)
C9_Witness ==
    \E p \in DOMAIN procs :
        /\ procs[p].stopped
        /\ procs[p].os = "killed"
        /\ p \notin killTimers

(***************************************************************************)
(* C7.  The data messages worker w has sent, and those of w handed to      *)
(* on_data.                                                                *)
(***************************************************************************)
Sent(w) == [k \in 1..workers[w].nsent |-> <<w, k>>]

Delivered(w) == SelectSeq(data_received, LAMBDA m : m[1] = w)

IsPrefix(s, t) == Len(s) <= Len(t) /\ s = SubSeq(t, 1, Len(s))

(* C7: the data messages of a worker are handed to on_data once each and   *)
(* in the order sent: what was delivered is at any time the first part of  *)
(* what was sent, and it is all of it once the host's end of the           *)
(* connection is gone, for a worker the host has neither stopped nor       *)
(* closed the bridge of.  (BridgeSpec)                                     *)
C7_DataDeliveredOnceInOrder ==
    \A w \in DOMAIN workers :
        /\ IsPrefix(Delivered(w), Sent(w))
        /\ (workers[w].hsock \in {"closed", "deleted"} /\ ~workers[w].dismissed) =>
               Delivered(w) = Sent(w)

(***************************************************************************)
(* C11.  stop(id) on an id that is not loaded or not active changes        *)
(* nothing: no marker, no command, no signal to a process, no emission;    *)
(* and a second stop(id) right after a stop(id) changes nothing.  (Spec)   *)
(***************************************************************************)
C11_StopInactiveIsNoOp ==
    \A id \in Ids :
        /\ ~IsActive(Cur, id) => Stop(Cur, id) = Cur
        /\ Stop(Stop(Cur, id), id) = Stop(Cur, id)

(* stop("a") is called again on plugin a, which was stopped a moment ago   *)
(* and whose process is still running.                                     *)
C11_Witness ==
    /\ IsLoaded(Cur, "a") /\ ~IsActive(Cur, "a")
    /\ "a" \in intentional_stops
    /\ records["a"].process # NoProc
    /\ procs[records["a"].process].q = "Running"
    /\ Stop(Cur, "a") = Cur

(***************************************************************************)
(* C12.  start(id) on an active plugin returns True and changes nothing:   *)
(* no process is spawned, restart_count and the state store are as before  *)
(* and nothing is emitted.  (Spec)                                         *)
(***************************************************************************)
C12_StartActiveIsNoOp ==
    \A id \in Ids, started \in BOOLEAN :
        IsActive(Cur, id) => Start(Cur, id, started) = Return(Cur, TRUE)

(* start("a") is called on the running plugin a.                           *)
C12_Witness ==
    /\ Running(Cur, "a")
    /\ states["a"].run_count = 1
    /\ LET M == Start(Cur, "a", TRUE)
       IN  M.ret = TRUE /\ M.procs = procs /\ M.states = states /\ M.out = <<>>

(***************************************************************************)
(* C13.  discover() returns exactly the manifests of the descriptors that  *)
(* pass validation, one per valid descriptor in an immediate subdirectory  *)
(* of the plugins root, and skips the others.  (FilesSpec)                 *)
(***************************************************************************)
RECURSIVE ValidScan(_, _)
ValidScan(t, i) ==
    IF i > Len(AllPaths) THEN <<>>
    ELSE
        LET path == AllPaths[i]
            here == IF Len(path) = 2 /\ Last(path) = DescriptorName
                           /\ ValidateManifest(t, path)
                        THEN <<FromFile(t[path]).manifest>>
                        ELSE <<>>
        IN  here \o ValidScan(t, i + 1)

C13_DiscoverReturnsValidOnly == Discover(plugins_dir) = ValidScan(plugins_dir, 1)

(***************************************************************************)
(* C14.  import_plugin of an archive whose descriptor declares the id of   *)
(* an existing plugin directory (one that holds a valid descriptor) fails, *)
(* and afterwards the plugins root holds the files it held before: the     *)
(* existing plugin is unchanged and nothing of the archive is left.        *)
(* (FilesSpec)                                                             *)
(***************************************************************************)
DeclaredId(zf) ==
    LET json_entries == {i \in DOMAIN zf : Last(zf[i].path) = DescriptorName}
    IN  IF json_entries = {} THEN ""
        ELSE zf[CHOOSE i \in json_entries : \A j \in json_entries : i <= j].file.id

C14_CollidingImportLeavesNoTrace ==
    \A zf \in Archives :
        ValidateManifest(plugins_dir, <<DeclaredId(zf), DescriptorName>>)
            => LET r == ImportZip(plugins_dir, zf)
               IN  ~r.ok /\ r.tree = plugins_dir

(***************************************************************************)
(* C15.  After any sequence of operations of the state store the state     *)
(* file holds exactly the in-memory mapping, and a store constructed on    *)
(* the file, now or later, has the same ids with the same field values.    *)
(* (StoreSpec)                                                             *)
(***************************************************************************)
FileHoldsMapping ==
    /\ \/ _file = Dumps(_states)
       \/ _file = Absent /\ _states = <<>>
    /\ \A t \in now..MaxClock : _load(_file, t) = _states

HoldsRunning(M, id) ==
    /\ M.records[id].process # NoProc
    /\ M.procs[M.records[id].process].q = "Running"

HasLiveWorker(id) == \E p \in DOMAIN procs : procs[p].pid = id /\ procs[p].os = "alive"

C16_ActiveIffWorkerRunning ==
    \A id \in DOMAIN records :
        /\ records[id].active => HoldsRunning(Cur, id)
        /\ ~records[id].active => ~HasLiveWorker(id)

(* Amended: active = true implies that the record holds a running process; *)
(* stop() clears active at once and leaves the process running.            *)
C16_ActiveHoldsRunningProcess ==
    \A id \in DOMAIN records :
        /\ records[id].active => HoldsRunning(Cur, id)
        /\ Running(Cur, id) =>
               LET M == Stop(Cur, id)
               IN  ~M.records[id].active /\ HoldsRunning(M, id)

(* Plugin a is active with a running process; and stop() of it gives an    *)
(* inactive record whose process is still alive.                           *)
C16_Witness ==
    /\ Running(Cur, "a")
    /\ procs[records["a"].process].os = "alive"
    /\ LET M == Stop(Cur, "a")
       IN  ~M.records["a"].active /\ M.procs[M.records["a"].process].os = "alive"

(***************************************************************************)
(* C17.  The exit notification of a worker of an earlier generation (a     *)
(* process other than the one the record holds) changes neither the active *)
(* flag nor restart_count of the record.  (Spec)                           *)
(***************************************************************************)
C17_LateExitLeavesCurrentGeneration ==
    \A p \in DOMAIN procs :
        LET id == procs[p].pid
        IN  (Finishable(p) /\ id \in DOMAIN records /\ records[id].process # p) =>
                \A exit \in ExitsOf(procs[p].os) :
                    LET M == FinishProcess(Cur, p, exit)
                    IN  /\ M.records[id].active = records[id].active
                        /\ M.records[id].restart_count = records[id].restart_count

(***************************************************************************)
(* C18.  The intentional-stop marker of an id is set only while the id has *)
(* a record and a process of the id, terminated by stop(), has an exit     *)
(* that is still to be handled; after delete_plugin and after              *)
(* reload_plugin the marker of the id is not set.  (Spec)                  *)
(***************************************************************************)
StopPending(M, id) ==
    \E p \in DOMAIN M.procs :
        /\ M.procs[p].pid = id
        /\ M.procs[p].q = "Running"
        /\ M.procs[p].connected

C18_MarkerOnlyWhileStopPending ==
    /\ \A id \in intentional_stops : id \in DOMAIN records /\ StopPending(Cur, id)
    /\ \A id \in Ids, how \in WaitOutcomes, rm_ok \in BOOLEAN :
           id \notin DeletePlugin(Cur, id, how, rm_ok).stops
    /\ \A id \in Ids, how \in WaitOutcomes, outcome \in LoadOutcomes, started \in BOOLEAN :
           id \notin ReloadPlugin(Cur, id, how, outcome, started).stops

(***************************************************************************)
(* C19.  Each exit handled as a crash adds exactly 1 to restart_count and  *)
(* to the persisted crash_count of the id and emits plugin_crashed exactly *)
(* once; if the new restart_count is at most 3 exactly one restart is      *)
(* scheduled, otherwise none.  (Spec)                                      *)
(***************************************************************************)
Count(M, what, id) == Cardinality({i \in DOMAIN M.out : M.out[i] = <<what, id>>})

C21_NoRestartAfterStopAll ==
    \A hows \in [Ids -> WaitOutcomes], id \in Ids, started \in BOOLEAN :
        LET M == StopAll(Cur, hows)
        IN  M.rtimers[id] > 0 =>
                LET N == TimerStart(M, id, started)
                IN  N.procs = M.procs /\ ~IsActive(N, id)

(***************************************************************************)
(* C22.  Once the bridge holds a worker connection, a further connection   *)
(* on the channel does not become the bridge's connection.  (BridgeSpec)   *)
(***************************************************************************)
Acceptable(w) ==
    /\ _server = "listening"
    /\ workers[w].sock \in {"connected", "closed"}
    /\ workers[w].hsock = "none"
    /\ \A v \in 1..(w - 1) : workers[v].hsock # "none" \/ workers[v].sock = "never"
                                 \/ workers[v].sock = "unconnected"

C22_OneConnectionPerGeneration ==
    \A w \in DOMAIN workers :
        (Acceptable(w) /\ _conn # NoConn) => OnNewConnection(BCur, w).conn = _conn

(***************************************************************************)
(* C23.  The disconnect of a connection that is not the bridge's current   *)
(* one leaves the current connection in place and open.  (BridgeSpec)      *)
(***************************************************************************)
C23_StaleDisconnectKeepsConnection ==
    \A w \in DOMAIN workers :
        (workers[w].hsock = "open" /\ workers[w].sock = "closed"
            /\ _conn # NoConn /\ _conn # w) =>
            LET B == OnDisconnected(BCur, w)
            IN  B.conn = _conn /\ B.workers[_conn] = workers[_conn]

(***************************************************************************)
(* C25.  The receive buffer of the bridge holds no bytes of a connection   *)
(* that is gone: when a later worker is connected, _buf holds bytes of     *)
(* that worker only, so its first message is dispatched intact.            *)
(* (BridgeSpec)                                                            *)
(***************************************************************************)
C25_NoBytesOfAnEarlierConnection ==
    (_conn # NoConn /\ \A w \in DOMAIN workers \ {_conn} : workers[w].hsock # "open") =>
        \A i \in DOMAIN _buf : _buf[i] = Newline \/ _buf[i].w = _conn

(***************************************************************************)
(* C30.  A load(id) that returns False leaves the manager as it was: no    *)
(* record of the id, no plugin_loaded, and no bridge it made listening.    *)
(* (Spec)                                                                  *)
(***************************************************************************)
C30_FailedLoadLeavesNothing ==
    \A id \in Ids, outcome \in LoadOutcomes :
        LET M == Load(Cur, id, outcome)
        IN  M.ret = FALSE =>
                /\ id \notin DOMAIN M.records
                /\ M.records = records
                /\ M.out = <<>>
                /\ M.listening = listening
                /\ M.procs = procs /\ M.stops = intentional_stops
                /\ M.states = states /\ M.file = file

(* load("a") fails while the plugin class is instantiated: the bridge the  *)
(* call made is closed again and no record is left.                        *)
C30_Witness ==
    /\ "a" \notin DOMAIN records /\ "a" \in dirs
    /\ closedBridges # {}
    /\ LET M == Load(Cur, "a", "instantiate_error")
       IN  /\ M.ret = FALSE
           /\ M.closed # closedBridges
           /\ M.listening = listening

(***************************************************************************)
(* C24.  However the stream is split into reads, once the host has read    *)
(* all of it, it has dispatched every data message the peer wrote, in the  *)
(* order written, whatever lines that are no messages lie between them,    *)
(* and the connection is still in place.  (StreamSpec)                     *)
(***************************************************************************)
WrittenBy(w) == [i \in 1..workers[w].nsent |-> <<w, i>>]

C24_EveryMessageOfTheStreamDispatched ==
    \A w \in DOMAIN workers :
        (_conn = w /\ workers[w].hsock = "open"
            /\ workers[w].wire = <<>> /\ workers[w].rx = <<>>) =>
            data_received = WrittenBy(w)

(***************************************************************************)
(* C26.  In the worker a "stop" command or the loss of the connection      *)
(* makes _handle_stop call the plugin's stop hook and schedule the exit;   *)
(* when both happen the hook is called once and one exit is scheduled, and *)
(* no connection attempt is made afterwards.  (WorkerSpec)                 *)
(***************************************************************************)
C26_StopHandledOnce ==
    /\ wlog.stops <= 1
    /\ wlog.quits <= 1
    /\ wlog.late_attempts = 0
    /\ wlog.handled # {} =>
           /\ wlog.stops = 1
           /\ wlog.quits = 1
           /\ worker_host._shutting_down
           /\ ~worker_host._retry_timer

(* The stop command was handled, then the disconnect, before the exit.     *)
C26_Witness ==
    /\ wlog.handled = {"stop", "gone"}
    /\ wlog.stops = 1
    /\ worker_host.quit_timers = 1
    /\ worker_host.app = "exec"

(***************************************************************************)
(* C27.  In the worker only the loop thread writes to the socket; the      *)
(* plugin's thread never calls _socket.write.  (WorkerSpec)                *)
(***************************************************************************)
C27_OnlyLoopThreadWrites == wlog.writers \subseteq {"loop"}

(***************************************************************************)
(* C28.  When plugin.start() has returned or raised on its thread, the     *)
(* loop is told to quit and the process exits; an exception is caught.     *)
(* (FairWorkerSpec)                                                        *)
(***************************************************************************)
C28_ThreadEndLeadsToExit ==
    /\ [](worker_host.thread = "raised" => wlog.caught)
    /\ (worker_host.thread \in {"returned", "raised"}) ~> (worker_host.app = "returned")

(* start() raised and the process has exited although nothing stopped it.  *)
C28_Witness ==
    /\ worker_host.thread = "raised"
    /\ worker_host.app = "returned"
    /\ wlog.handled = {}
    /\ ~worker_host.posted_quit

(***************************************************************************)
(* C29.  The lifecycle signals of a plugin alternate: the first is         *)
(* plugin_started, and a plugin_started is never followed by another       *)
(* plugin_started, nor a plugin_stopped or plugin_crashed by another       *)
(* plugin_stopped or plugin_crashed.  (NotifySpec)                         *)
(***************************************************************************)
Alternate(s) ==
    \A i \in DOMAIN s : (s[i] = "plugin_started") <=> (i % 2 = 1)

C29_LifecycleSignalsAlternate == \A id \in Ids : Alternate(notified[id])

====
